---- MODULE Spec2Model ----
(***************************************************************************)
(* A model of dawg_python (src/venv/lib/python3.11/site-packages/          *)
(* dawg_python): the unit codec (units.py), the double-array Dictionary,   *)
(* the Guide and the Completer (wrapper.py) and the DAWG classes built on  *)
(* them (dawgs.py).                                                        *)
(*                                                                         *)
(* Representation.  A 32-bit unit is the pair <<hi, lo>>: hi is bit 31     *)
(* (IS_LEAF_BIT) and lo the low 31 bits, since TLC's integers end at       *)
(* 2^31 - 1.  A bytes object is a sequence of numbers 0..255, a str a      *)
(* sequence of code points.  Arrays are 0-based in the source and          *)
(* sequences here, so _units[i] of the source is dictionary[i + 1].        *)
(* Python's None is the number PyNone where an index is expected.          *)
(***************************************************************************)
EXTENDS Integers, Sequences, FiniteSets, TLC

(***************************************************************************)
(* Bounds of the model.                                                    *)
(***************************************************************************)
\* The largest number of keys of an integer dictionary.
MaxKeys == 2
\* The largest number of (key, payload) pairs of a bytes dictionary.
MaxPairs == 2

(***************************************************************************)
(* Generic helpers.                                                        *)
(***************************************************************************)
RECURSIVE Xor(_, _)
\* Python's a ^ b on non-negative integers.
Xor(a, b) ==
  IF a = 0 THEN b
  ELSE IF b = 0 THEN a
  ELSE (2 * Xor(a \div 2, b \div 2)) + ((a + b) % 2)

Min(S) == CHOOSE x \in S : \A y \in S : x <= y

RECURSIVE SortedSeq(_)
\* The members of a finite set of numbers in increasing order.
SortedSeq(S) ==
  IF S = {} THEN <<>> ELSE <<Min(S)>> \o SortedSeq(S \ {Min(S)})

IsPrefix(p, s) == Len(p) <= Len(s) /\ SubSeq(s, 1, Len(p)) = p

\* Lexicographic order on sequences of numbers (a proper prefix comes first).
RECURSIVE LexLess(_, _)
LexLess(s, t) ==
  IF t = <<>> THEN FALSE
  ELSE IF s = <<>> THEN TRUE
  ELSE IF s[1] # t[1] THEN s[1] < t[1]
  ELSE LexLess(Tail(s), Tail(t))

RECURSIVE LexSorted(_)
\* The members of a finite set of sequences in lexicographic order.
LexSorted(S) ==
  IF S = {} THEN <<>>
  ELSE LET m == CHOOSE x \in S : \A y \in S \ {x} : LexLess(x, y)
       IN  <<m>> \o LexSorted(S \ {m})

Range(s) == {s[i] : i \in 1..Len(s)}

(***************************************************************************)
(* units.py                                                                *)
(***************************************************************************)
HAS_LEAF_BIT == 256
EXTENSION_BIT == 512

\* has_leaf(base): base & HAS_LEAF_BIT.
has_leaf(base) == (base[2] \div HAS_LEAF_BIT) % 2 = 1

\* value(base): base & ~IS_LEAF_BIT & PRECISION_MASK, the low 31 bits.
units_value(base) == base[2]

\* label(base): base & (IS_LEAF_BIT | 0xFF), kept as <<bit 31, low byte>>.
units_label(base) == <<base[1], base[2] % 256>>

\* offset(base): ((base >> 10) << ((base & EXTENSION_BIT) >> 6)) & PRECISION_MASK.
\* base >> 10 is below 2^22 and the shift is 0 or 8, so the result is below
\* 2^30 and the mask changes nothing.
units_offset(base) ==
  ((base[1] * 2097152) + (base[2] \div 1024))
    * (IF (base[2] \div EXTENSION_BIT) % 2 = 1 THEN 256 ELSE 1)

(***************************************************************************)
(* Text conversions used by dawgs.py.                                      *)
(***************************************************************************)
\* str.encode("utf8") of one code point below 2048.
Utf8Char(c) == IF c < 128 THEN <<c>> ELSE <<192 + (c \div 64), 128 + (c % 64)>>

RECURSIVE Utf8Encode(_)
\* str.encode("utf8").
Utf8Encode(s) == IF s = <<>> THEN <<>> ELSE Utf8Char(s[1]) \o Utf8Encode(Tail(s))

\* The result of bytes.decode("utf8") on input that is not UTF-8.
DecodeError == <<-1>>

RECURSIVE Utf8Decode(_)
\* bytes.decode("utf8") for code points below 2048; DecodeError when the
\* bytes are not such an encoding (UnicodeDecodeError).
Utf8Decode(b) ==
  IF b = <<>> THEN <<>>
  ELSE IF b[1] < 128
    THEN LET r == Utf8Decode(Tail(b))
         IN  IF r = DecodeError THEN DecodeError ELSE <<b[1]>> \o r
  ELSE IF b[1] >= 194 /\ b[1] < 224 /\ Len(b) >= 2 /\ b[2] >= 128 /\ b[2] < 192
    THEN LET r == Utf8Decode(Tail(Tail(b)))
         IN  IF r = DecodeError THEN DecodeError
             ELSE <<((b[1] - 192) * 64) + (b[2] - 128)>> \o r
  ELSE DecodeError

\* The base64 alphabet: the character of a 6-bit value.
B64Char(v) ==
  IF v < 26 THEN 65 + v
  ELSE IF v < 52 THEN 97 + (v - 26)
  ELSE IF v < 62 THEN 48 + (v - 52)
  ELSE IF v = 62 THEN 43 ELSE 47

\* The 6-bit value of a base64 character, -1 for any other byte.
B64Val(c) ==
  IF c >= 65 /\ c <= 90 THEN c - 65
  ELSE IF c >= 97 /\ c <= 122 THEN (c - 97) + 26
  ELSE IF c >= 48 /\ c <= 57 THEN (c - 48) + 52
  ELSE IF c = 43 THEN 62
  ELSE IF c = 47 THEN 63
  ELSE -1

RECURSIVE B64Groups(_)
B64Groups(p) ==
  IF p = <<>> THEN <<>>
  ELSE IF Len(p) = 1
    THEN <<B64Char(p[1] \div 4), B64Char((p[1] % 4) * 16), 61, 61>>
  ELSE IF Len(p) = 2
    THEN <<B64Char(p[1] \div 4), B64Char(((p[1] % 4) * 16) + (p[2] \div 16)),
           B64Char((p[2] % 16) * 4), 61>>
  ELSE <<B64Char(p[1] \div 4), B64Char(((p[1] % 4) * 16) + (p[2] \div 16)),
         B64Char(((p[2] % 16) * 4) + (p[3] \div 64)), B64Char(p[3] % 64)>>
       \o B64Groups(SubSeq(p, 4, Len(p)))

\* binascii.b2a_base64(payload): the base64 text and a newline.  The
\* dictionary files hold payloads in this form.
b2a_base64(p) == B64Groups(p) \o <<10>>

RECURSIVE B64Quads(_)
B64Quads(v) ==
  IF Len(v) < 2 THEN <<>>
  ELSE IF Len(v) = 2 THEN <<(v[1] * 4) + (v[2] \div 16)>>
  ELSE IF Len(v) = 3
    THEN <<(v[1] * 4) + (v[2] \div 16), ((v[2] % 16) * 16) + (v[3] \div 4)>>
  ELSE <<(v[1] * 4) + (v[2] \div 16), ((v[2] % 16) * 16) + (v[3] \div 4),
         ((v[3] % 4) * 64) + v[4]>>
       \o B64Quads(SubSeq(v, 5, Len(v)))

\* binascii.a2b_base64(data) on well-padded input: bytes outside the
\* alphabet (the newline, the padding) are skipped, each group of four
\* 6-bit values gives three bytes and a last group of two or three values
\* gives one or two.
a2b_base64(data) ==
  B64Quads([i \in 1..Cardinality({j \in 1..Len(data) : B64Val(data[j]) >= 0}) |->
     B64Val(data[CHOOSE j \in 1..Len(data) :
        /\ B64Val(data[j]) >= 0
        /\ Cardinality({k \in 1..j : B64Val(data[k]) >= 0}) = i])])

(***************************************************************************)
(* Dictionary files.  The files the package loads are written by the       *)
(* dawgdic builder, which is not part of the package; what follows lays a  *)
(* key set out the way that builder does, so that every dictionary the     *)
(* model loads is a well-formed one: a node's children sit at              *)
(* base XOR label, the terminal child (label 0) is a leaf unit holding the *)
(* value, nodes with the same continuations share their children, unused   *)
(* units carry a label no transition reaches, and the array is one block   *)
(* of BLOCK_SIZE units.  keys is a set of non-empty byte strings without   *)
(* the byte 0, val their values.                                           *)
(***************************************************************************)
BLOCK_SIZE == 256

TrieNodes(keys) == UNION {{SubSeq(k, 1, n) : n \in 0..Len(k)} : k \in keys}

ChildLabels(keys, p) ==
  {k[Len(p) + 1] : k \in {x \in keys : IsPrefix(p, x) /\ Len(x) > Len(p)}}

\* The labels of a node's children in the builder's order: the terminal
\* label 0 first, then the bytes in increasing order.
Labels(keys, p) ==
  (IF p \in keys THEN <<0>> ELSE <<>>) \o SortedSeq(ChildLabels(keys, p))

\* What can follow p: the builder merges nodes that agree on it.
RightLang(keys, val, p) ==
  {<<SubSeq(k, Len(p) + 1, Len(k)), val[k]>> : k \in {x \in keys : IsPrefix(p, x)}}

\* Unit::set_offset for offsets below OFFSET_MAX, keeping has_leaf and label.
SetOffset(base, has, off) ==
  <<base[1], (off * 1024) + (IF has THEN HAS_LEAF_BIT ELSE 0) + (base[2] % 256)>>

\* FindGoodOffset: the first free unit u such that base = u XOR labels[1] is
\* used by no node and every child slot base XOR label is free.
FindGoodOffset(st, labels) ==
  LET free == (0..(BLOCK_SIZE - 1)) \ st.fixed
      good(u) == LET b == Xor(u, labels[1])
                 IN  /\ b \notin st.used
                     /\ \A j \in 1..Len(labels) : Xor(b, labels[j]) \in free
  IN  Xor(Min({u \in free : good(u)}), labels[1])

\* ArrangeChildNodes for the node p placed at index i, once FindGoodOffset
\* has given the base of its children.
ArrangeChildNodesAt(st, keys, val, p, i, base) ==
  LET labels == Labels(keys, p)
      slots == {Xor(base, labels[j]) : j \in 1..Len(labels)}
  IN  [units |-> [x \in 0..(BLOCK_SIZE - 1) |->
                    IF x = i THEN SetOffset(st.units[i], p \in keys, Xor(i, base))
                    ELSE IF x = base /\ p \in keys THEN <<1, val[p]>>
                    ELSE IF x \in slots THEN <<0, Xor(x, base)>>
                    ELSE st.units[x]],
       fixed |-> st.fixed \cup slots,
       used |-> st.used \cup {base},
       links |-> st.links \cup {<<RightLang(keys, val, p), base>>},
       node |-> st.node \cup {<<Xor(base, l), p \o <<l>>>> : l \in ChildLabels(keys, p)}]

ArrangeChildNodes(st, keys, val, p, i) ==
  ArrangeChildNodesAt(st, keys, val, p, i, FindGoodOffset(st, Labels(keys, p)))

\* A node whose children are already laid out points at them.
ShareChildNodes(st, keys, p, i, base) ==
  [st EXCEPT !.units[i] = SetOffset(st.units[i], p \in keys, Xor(i, base))]

RECURSIVE BuildDictionary(_, _, _, _)
RECURSIVE BuildChildren(_, _, _, _, _, _)
\* BuildDictionary, depth first: stack holds the <<node, index>> pairs to do.
BuildDictionary(st, keys, val, stack) ==
  IF stack = <<>> THEN st
  ELSE LET p == stack[1][1]
           i == stack[1][2]
           shared == {l \in st.links : l[1] = RightLang(keys, val, p)}
       IN  IF shared # {}
             THEN BuildDictionary(
                    ShareChildNodes(st, keys, p, i, (CHOOSE l \in shared : TRUE)[2]),
                    keys, val, Tail(stack))
             ELSE BuildChildren(ArrangeChildNodes(st, keys, val, p, i), keys, val, p, i,
                                Tail(stack))

\* The children of the node p, now laid out in st, go on the stack.
BuildChildren(st, keys, val, p, i, rest) ==
  LET base == Xor(i, units_offset(st.units[i]))
      ls == SortedSeq(ChildLabels(keys, p))
  IN  BuildDictionary(st, keys, val,
        [j \in 1..Len(ls) |-> <<p \o <<ls[j]>>, Xor(base, ls[j])>>] \o rest)

\* The builder's start: the root unit is reserved, with label 0.
BuildStart ==
  [units |-> [x \in 0..(BLOCK_SIZE - 1) |-> <<0, 0>>],
   fixed |-> {0}, used |-> {0}, links |-> {}, node |-> {<<0, <<>>>>}]

\* FixBlock: every unit left free gets the label index XOR o, o a base no
\* node uses, so that no transition ends in it.
FixBlock(st) ==
  LET o == Min((0..(BLOCK_SIZE - 1)) \ st.used)
  IN  [x \in 0..(BLOCK_SIZE - 1) |->
         IF x \in st.fixed THEN st.units[x] ELSE <<0, Xor(x, o)>>]

\* GuideBuilder: a node's child is its first non-terminal label, its sibling
\* the next label of its parent.
GuideChild(keys, p) ==
  IF ChildLabels(keys, p) = {} THEN 0 ELSE Min(ChildLabels(keys, p))

GuideSibling(keys, p) ==
  IF p = <<>> THEN 0
  ELSE LET later == {l \in ChildLabels(keys, SubSeq(p, 1, Len(p) - 1)) : l > p[Len(p)]}
       IN  IF later = {} THEN 0 ELSE Min(later)

\* The guide array for the nodes placed in st.
BuildGuide(st, keys) ==
  [y \in 1..(2 * BLOCK_SIZE) |->
     LET ps == {n[2] : n \in {m \in st.node : m[1] = (y - 1) \div 2}}
     IN  IF ps = {} THEN 0
         ELSE IF y % 2 = 1 THEN GuideChild(keys, CHOOSE q \in ps : TRUE)
         ELSE GuideSibling(keys, CHOOSE q \in ps : TRUE)]

\* The file for the finished layout st: the unit array and the guide array.
WriteFile(st, keys) ==
  [units |-> [x \in 1..BLOCK_SIZE |-> FixBlock(st)[x - 1]],
   guide |-> BuildGuide(st, keys)]

\* The file written for (keys, val).
BuildFile(keys, val) ==
  WriteFile(BuildDictionary(BuildStart, keys, val, << <<(<<>>), 0>> >>), keys)

(***************************************************************************)
(* The dictionaries of the model and the files they are laid out in.      *)
(* Characters: a = 97, b = 98, e = 101, e-acute = 233 (two     *)
(* bytes in UTF-8), and the letters of the scenarios of the                *)
(* specification.                                                          *)
(***************************************************************************)
KeyUniverse ==
  {<<97>>, <<98>>, <<97, 98>>, <<98, 97>>, <<97, 98, 98>>, <<233>>}

\* The smallest and the largest value a leaf unit holds.
Values == {0, 2147483647}

Cat == <<99, 97, 116>>
Car == <<99, 97, 114>>
Care == <<99, 97, 114, 101>>
Color == <<99, 111, 108, 111, 114>>
Col0r == <<99, 111, 108, 48, 114>>
C0lor == <<99, 48, 108, 111, 114>>
C0l0r == <<99, 48, 108, 48, 114>>

\* {"cat": 1, "car": 2, "care": 3}, {"color"} and the spellings of "color".
ScenarioMaps ==
  { [k \in {Cat, Car, Care} |-> IF k = Cat THEN 1 ELSE IF k = Car THEN 2 ELSE 3],
    [k \in {Color} |-> 0],
    [k \in {Color, Col0r, C0lor, C0l0r} |-> 0] }

\* The integer dictionaries: key -> value.
IntInputs ==
  UNION {[S -> Values] :
           S \in {T \in SUBSET KeyUniverse : Cardinality(T) \in 1..MaxKeys}}
    \cup ScenarioMaps

Abc == <<97, 98, 99>>
Xyz == <<120, 121, 122>>

\* The (key, payload) pairs of the bytes dictionaries.
PairUniverse ==
  { <<(<<97>>), Abc>>, <<(<<97>>), Xyz>>, <<(<<97, 98>>), Abc>>,
    <<(<<98>>), (<<>>)>>, <<(<<97, 98>>), (<<255>>)>>, <<(<<>>), Xyz>> }

BytesInputs ==
  {P \in SUBSET PairUniverse : Cardinality(P) \in 1..MaxPairs}

\* PAYLOAD_SEPARATOR = b"\x01"
PAYLOAD_SEPARATOR == <<1>>

\* A separator given to BytesDAWG(payload_separator=...) and to the builder.
ConfiguredSeparator == <<2>>

\* BytesDAWG's raw key of a pair: key + separator + b2a_base64(payload).
RawKeyWith(pair, sep) == Utf8Encode(pair[1]) \o sep \o b2a_base64(pair[2])

\* The keys of the file a source is laid out in, and their values.
RawKeys(source) ==
  IF source.kind = "int" THEN {Utf8Encode(k) : k \in DOMAIN source.map}
  ELSE {RawKeyWith(pr, source.sep) : pr \in source.pairs}

RawVal(source) ==
  [r \in RawKeys(source) |->
     IF source.kind = "int"
       THEN source.map[CHOOSE k \in DOMAIN source.map : Utf8Encode(k) = r]
       ELSE 0]

Sources ==
  {[kind |-> "int", map |-> m] : m \in IntInputs}
    \cup {[kind |-> "bytes", pairs |-> P, sep |-> PAYLOAD_SEPARATOR] : P \in BytesInputs}

\* The bytes dictionaries built and opened with a separator of their own.
SeparatorSources ==
  {[kind |-> "bytes", pairs |-> P, sep |-> ConfiguredSeparator] : P \in BytesInputs}

\* Before load() there is no file.
NoSource == [kind |-> "none"]

\* The file of each dictionary.
Files ==
  [source \in Sources \cup SeparatorSources \cup {NoSource} |->
     IF source = NoSource THEN [units |-> <<>>, guide |-> <<>>]
     ELSE BuildFile(RawKeys(source), RawVal(source))]

(***************************************************************************)
(* The state of the program.                                               *)
(***************************************************************************)
VARIABLES
  cls,      \* the class of the DAWG object, "none" before load()
  src,      \* the dictionary whose file was loaded (what the claims refer to)
  dictionary, \* dct._units: the unit array of the Dictionary
  guide,    \* guide._units: child and sibling label of index i at 2i and 2i + 1
  pc,       \* "idle", "returned" (a call has returned), "raised" or "iter"
  called,   \* the last call made: <<op, arg, ret>>
  gen       \* the running enumerations: generator id -> its frame

vars == <<cls, src, dictionary, guide, pc, called, gen>>

\* The last call, by field.
call == [op |-> called[1], arg |-> called[2], ret |-> called[3]]

\* Python's None where a number is expected.
PyNone == -2
ROOT == 0
LOOKUP_ERROR == -1
\* bool(x) of an index or None: `if not index` takes None and 0 alike.
Truthy(x) == x # PyNone /\ x # 0

Last(s) == s[Len(s)]
Front(s) == SubSeq(s, 1, Len(s) - 1)

(***************************************************************************)
(* wrapper.py: Dictionary                                                  *)
(***************************************************************************)
has_value(index) == has_leaf(dictionary[index + 1])

dct_value(index) ==
  LET offset == units_offset(dictionary[index + 1])
      value_index == Xor(index, offset)
  IN  units_value(dictionary[value_index + 1])

\* follow_char without the test of the target unit's label.
follow_char_unchecked(label, index) ==
  Xor(Xor(index, units_offset(dictionary[index + 1])), label)

follow_char(label, index) ==
  LET offset == units_offset(dictionary[index + 1])
      next_index == Xor(Xor(index, offset), label)
  IN  IF units_label(dictionary[next_index + 1]) # <<0, label>> THEN PyNone
      ELSE next_index

RECURSIVE follow_bytes(_, _)
follow_bytes(s, index) ==
  IF s = <<>> THEN index
  ELSE LET nxt == follow_char(s[1], index)
       IN  IF nxt = PyNone THEN PyNone ELSE follow_bytes(Tail(s), nxt)

contains(key) ==
  LET index == follow_bytes(key, ROOT)
  IN  IF index = PyNone THEN FALSE ELSE has_value(index)

find(key) ==
  LET index == follow_bytes(key, ROOT)
  IN  IF index = PyNone THEN -1
      ELSE IF ~has_value(index) THEN -1
      ELSE dct_value(index)

(***************************************************************************)
(* wrapper.py: Guide and Completer.  A Completer is the record             *)
(* [key, index_stack, last_index]; next() gives [ret, c]: what it returns  *)
(* and the Completer it leaves.                                            *)
(***************************************************************************)
child(index) == guide[(index * 2) + 1]

sibling(index) == guide[(index * 2) + 2]

guide_size == Len(guide)

\* start() leaving the key buffer empty instead of copying the prefix.
Completer_start_empty_key(index, prefix) ==
  IF guide_size # 0
    THEN [key |-> <<>>, index_stack |-> <<index>>, last_index |-> ROOT]
    ELSE [key |-> <<>>, index_stack |-> <<>>, last_index |-> ROOT]

Completer_start(index, prefix) ==
  IF guide_size # 0
    THEN [key |-> prefix, index_stack |-> <<index>>, last_index |-> ROOT]
    ELSE [key |-> prefix, index_stack |-> <<>>, last_index |-> ROOT]

\* _follow: [index, c], index None when there is no such transition.
Completer_follow(c, label, index) ==
  LET next_index == follow_char(label, index)
  IN  IF next_index = PyNone THEN [index |-> PyNone, c |-> c]
      ELSE [index |-> next_index,
            c |-> [c EXCEPT !.key = Append(@, label),
                            !.index_stack = Append(@, next_index)]]

RECURSIVE Completer_find_terminal(_, _)
Completer_find_terminal(c, index) ==
  IF has_value(index) THEN [ret |-> TRUE, c |-> [c EXCEPT !.last_index = index]]
  ELSE LET label == child(index)
           nxt == follow_char(label, index)
       IN  IF nxt = PyNone THEN [ret |-> FALSE, c |-> c]
           ELSE Completer_find_terminal(
                  [c EXCEPT !.key = Append(@, label),
                            !.index_stack = Append(@, nxt)], nxt)

\* The backtracking step without its loop: one node is popped, and next()
\* returns False when that node has no sibling.
Completer_backtrack_once(c, index) ==
  LET sibling_label == sibling(index)
      c1 == [c EXCEPT !.key = IF Len(@) > 0 THEN Front(@) ELSE @,
                      !.index_stack = Front(@)]
  IN  IF c1.index_stack = <<>> \/ sibling_label = 0 THEN [ret |-> FALSE, c |-> c1]
      ELSE LET f == Completer_follow(c1, sibling_label, Last(c1.index_stack))
           IN  IF f.index = PyNone THEN [ret |-> FALSE, c |-> f.c]
               ELSE Completer_find_terminal(f.c, f.index)

RECURSIVE Completer_backtrack_from_popped(_, _)
\* The backtracking loop following the sibling label from the node it has
\* popped instead of from the new top of the stack.
Completer_backtrack_from_popped(c, index) ==
  LET sibling_label == sibling(index)
      c1 == [c EXCEPT !.key = IF Len(@) > 0 THEN Front(@) ELSE @,
                      !.index_stack = Front(@)]
  IN  IF c1.index_stack = <<>> THEN [ret |-> FALSE, c |-> c1]
      ELSE LET top == Last(c1.index_stack)
           IN  IF sibling_label # 0
                 THEN LET f == Completer_follow(c1, sibling_label, index)
                      IN  IF f.index = PyNone THEN [ret |-> FALSE, c |-> f.c]
                          ELSE Completer_find_terminal(f.c, f.index)
                 ELSE Completer_backtrack_from_popped(c1, top)

RECURSIVE Completer_backtrack_keep_stack(_, _)
\* The backtracking loop returning False on an exhausted stack without
\* leaving the stack empty.
Completer_backtrack_keep_stack(c, index) ==
  LET sibling_label == sibling(index)
      c1 == [c EXCEPT !.key = IF Len(@) > 0 THEN Front(@) ELSE @,
                      !.index_stack = Front(@)]
  IN  IF c1.index_stack = <<>> THEN [ret |-> FALSE, c |-> c]
      ELSE LET top == Last(c1.index_stack)
           IN  IF sibling_label # 0
                 THEN LET f == Completer_follow(c1, sibling_label, top)
                      IN  IF f.index = PyNone THEN [ret |-> FALSE, c |-> f.c]
                          ELSE Completer_find_terminal(f.c, f.index)
                 ELSE Completer_backtrack_keep_stack(c1, top)

RECURSIVE Completer_backtrack(_, _)
\* The `while True` loop of next(): the sibling label is read at the node
\* that is then popped.
Completer_backtrack(c, index) ==
  LET sibling_label == sibling(index)
      c1 == [c EXCEPT !.key = IF Len(@) > 0 THEN Front(@) ELSE @,
                      !.index_stack = Front(@)]
  IN  IF c1.index_stack = <<>> THEN [ret |-> FALSE, c |-> c1]
      ELSE LET top == Last(c1.index_stack)
           IN  IF sibling_label # 0
                 THEN LET f == Completer_follow(c1, sibling_label, top)
                      IN  IF f.index = PyNone THEN [ret |-> FALSE, c |-> f.c]
                          ELSE Completer_find_terminal(f.c, f.index)
                 ELSE Completer_backtrack(c1, top)

Completer_next(c) ==
  IF c.index_stack = <<>> THEN [ret |-> FALSE, c |-> c]
  ELSE LET index == Last(c.index_stack)
       IN  IF c.last_index # ROOT
             THEN LET child_label == child(index)
                  IN  IF child_label # 0
                        THEN LET f == Completer_follow(c, child_label, index)
                             IN  IF f.index = PyNone THEN [ret |-> FALSE, c |-> f.c]
                                 ELSE Completer_find_terminal(f.c, f.index)
                        ELSE Completer_backtrack(c, index)
             ELSE Completer_find_terminal(c, index)

\* Completer.value()
Completer_value(c) == dct_value(c.last_index)

(***************************************************************************)
(* dawgs.py: DAWG                                                          *)
(***************************************************************************)
\* _has_value(index), as the truth value its callers test: DAWG reads the
\* unit's flag, BytesDAWG overrides it with a transition on PAYLOAD_SEPARATOR.
DAWG_has_value(index) ==
  IF cls = "BytesDAWG" THEN Truthy(follow_bytes(PAYLOAD_SEPARATOR, index))
  ELSE has_value(index)

\* The result of compile_replaces on a mapping it refuses.
ValueError == "ValueError"
StructError == "struct.error"
EOFError == "EOFError"
\* No exception: the call returns.
NoError == "none"

\* A value of the mapping given to compile_replaces is a str or a list of
\* str: [isstr, v], v the list, or the one-element list that holds the str.
StrValue(str) == [isstr |-> TRUE, v |-> <<str>>]
ListValue(list) == [isstr |-> FALSE, v |-> list]

\* The checks of a value leaving out the one for a str.
bad_value_list_only(val) ==
  /\ ~val.isstr
  /\ ((\E i \in 1..Len(val.v) : Len(val.v[i]) # 1) \/ Len(val.v) < 1)

\* The two checks of a value in the loop of compile_replaces.
bad_value(val) ==
  \/ val.isstr /\ Len(val.v[1]) # 1
  \/ /\ ~val.isstr
     /\ ((\E i \in 1..Len(val.v) : Len(val.v[i]) # 1) \/ Len(val.v) < 1)

\* The table compile_replaces returns: from the encoded key to the list of
\* its (encoded alternate, alternate) pairs; iterating a str gives its
\* characters.
compiled_table(replaces) ==
  [bk \in {Utf8Encode(k) : k \in DOMAIN replaces} |->
     LET k == CHOOSE x \in DOMAIN replaces : Utf8Encode(x) = bk
         entries == IF replaces[k].isstr
                      THEN [i \in 1..Len(replaces[k].v[1]) |-> <<replaces[k].v[1][i]>>]
                      ELSE replaces[k].v
     IN  [i \in 1..Len(entries) |-> <<Utf8Encode(entries[i]), entries[i]>>]]

\* The loop of compile_replaces over the items: whether it raises.
compile_replaces_raises(replaces) ==
  \E k \in DOMAIN replaces : Len(k) # 1 \/ bad_value(replaces[k])

\* DAWG.compile_replaces(replaces): ValueError, or the table.
compile_replaces(replaces) ==
  IF compile_replaces_raises(replaces) THEN ValueError
  ELSE compiled_table(replaces)

RECURSIVE DAWG_similar_keys(_, _, _, _)
RECURSIVE similar_keys_while(_, _, _, _, _, _)
RECURSIVE similar_keys_for(_, _, _, _, _, _, _)

\* The `for` loop building the prefix with the query's own character
\* instead of the alternate.
similar_keys_for_own_char(current_prefix, key, index, replace_chars, word_pos, j, res) ==
  LET alts == replace_chars[Utf8Char(key[word_pos + 1])]
  IN  IF j > Len(alts) THEN res
      ELSE LET next_index == follow_bytes(alts[j][1], index)
               prefix == current_prefix
                           \o SubSeq(key, Len(current_prefix) + 1, word_pos + 1)
           IN  similar_keys_for(current_prefix, key, index, replace_chars, word_pos, j + 1,
                 IF Truthy(next_index)
                   THEN res \o DAWG_similar_keys(prefix, key, next_index, replace_chars)
                   ELSE res)

\* The `for` loop over the alternates of key[word_pos], from the j-th on.
\* The `for` loop allowing one replacement per query: the recursive call
\* is given an empty table.
similar_keys_for_single(current_prefix, key, index, replace_chars, word_pos, j, res) ==
  LET alts == replace_chars[Utf8Char(key[word_pos + 1])]
  IN  IF j > Len(alts) THEN res
      ELSE LET next_index == follow_bytes(alts[j][1], index)
               prefix == current_prefix
                           \o SubSeq(key, Len(current_prefix) + 1, word_pos)
                           \o alts[j][2]
           IN  similar_keys_for(current_prefix, key, index, replace_chars, word_pos, j + 1,
                 IF Truthy(next_index)
                   THEN res \o DAWG_similar_keys(prefix, key, next_index, compiled_table(<<>>))
                   ELSE res)

similar_keys_for(current_prefix, key, index, replace_chars, word_pos, j, res) ==
  LET alts == replace_chars[Utf8Char(key[word_pos + 1])]
  IN  IF j > Len(alts) THEN res
      ELSE LET next_index == follow_bytes(alts[j][1], index)
               prefix == current_prefix
                           \o SubSeq(key, Len(current_prefix) + 1, word_pos)
                           \o alts[j][2]
           IN  similar_keys_for(current_prefix, key, index, replace_chars, word_pos, j + 1,
                 IF Truthy(next_index)
                   THEN res \o DAWG_similar_keys(prefix, key, next_index, replace_chars)
                   ELSE res)

\* The `while` loop taking the query's own byte only where the table has
\* no alternates for it.
similar_keys_while_elif(current_prefix, key, index, replace_chars, word_pos, res) ==
  IF word_pos < Len(key)
    THEN LET b_step == Utf8Char(key[word_pos + 1])
             res1 == IF b_step \in DOMAIN replace_chars
                       THEN similar_keys_for(current_prefix, key, index, replace_chars,
                                             word_pos, 1, res)
                       ELSE res
             nxt == IF b_step \in DOMAIN replace_chars THEN PyNone
                    ELSE follow_bytes(b_step, index)
         IN  IF nxt = PyNone THEN res1
             ELSE similar_keys_while(current_prefix, key, nxt, replace_chars,
                                     word_pos + 1, res1)
    ELSE IF DAWG_has_value(index)
           THEN <<current_prefix \o SubSeq(key, Len(current_prefix) + 1, Len(key))>> \o res
           ELSE res

\* The `while` loop with res.append(found_key) instead of res.insert(0, found_key).
similar_keys_while_append(current_prefix, key, index, replace_chars, word_pos, res) ==
  IF word_pos < Len(key)
    THEN LET b_step == Utf8Char(key[word_pos + 1])
             res1 == IF b_step \in DOMAIN replace_chars
                       THEN similar_keys_for(current_prefix, key, index, replace_chars,
                                             word_pos, 1, res)
                       ELSE res
             nxt == follow_bytes(b_step, index)
         IN  IF nxt = PyNone THEN res1
             ELSE similar_keys_while(current_prefix, key, nxt, replace_chars,
                                     word_pos + 1, res1)
    ELSE IF DAWG_has_value(index)
           THEN res \o <<current_prefix \o SubSeq(key, Len(current_prefix) + 1, Len(key))>>
           ELSE res

\* The `while word_pos < end_pos` loop and its `else` clause.
similar_keys_while(current_prefix, key, index, replace_chars, word_pos, res) ==
  IF word_pos < Len(key)
    THEN LET b_step == Utf8Char(key[word_pos + 1])
             res1 == IF b_step \in DOMAIN replace_chars
                       THEN similar_keys_for(current_prefix, key, index, replace_chars,
                                             word_pos, 1, res)
                       ELSE res
             nxt == follow_bytes(b_step, index)
         IN  IF nxt = PyNone THEN res1
             ELSE similar_keys_while(current_prefix, key, nxt, replace_chars,
                                     word_pos + 1, res1)
    ELSE IF DAWG_has_value(index)
           THEN <<current_prefix \o SubSeq(key, Len(current_prefix) + 1, Len(key))>> \o res
           ELSE res

\* _similar_keys(current_prefix, key, index, replace_chars)
DAWG_similar_keys(current_prefix, key, index, replace_chars) ==
  similar_keys_while(current_prefix, key, index, replace_chars, Len(current_prefix), <<>>)

similar_keys(key, replaces) == DAWG_similar_keys(<<>>, key, ROOT, replaces)

RECURSIVE similar_keys_depth(_, _, _, _)
RECURSIVE similar_keys_depth_while(_, _, _, _, _, _)
RECURSIVE similar_keys_depth_for(_, _, _, _, _, _, _)

\* The call stack of _similar_keys: the same loops, keeping the length of
\* the longest chain of nested calls made (deepest) instead of the result.
similar_keys_depth_for(current_prefix, key, index, replace_chars, word_pos, j, deepest) ==
  LET alts == replace_chars[Utf8Char(key[word_pos + 1])]
  IN  IF j > Len(alts) THEN deepest
      ELSE LET next_index == follow_bytes(alts[j][1], index)
               prefix == current_prefix
                           \o SubSeq(key, Len(current_prefix) + 1, word_pos)
                           \o alts[j][2]
               below == IF Truthy(next_index)
                          THEN similar_keys_depth(prefix, key, next_index, replace_chars)
                          ELSE 0
           IN  similar_keys_depth_for(current_prefix, key, index, replace_chars, word_pos,
                 j + 1, IF below > deepest THEN below ELSE deepest)

similar_keys_depth_while(current_prefix, key, index, replace_chars, word_pos, deepest) ==
  IF word_pos < Len(key)
    THEN LET b_step == Utf8Char(key[word_pos + 1])
             deepest1 == IF b_step \in DOMAIN replace_chars
                           THEN similar_keys_depth_for(current_prefix, key, index,
                                                       replace_chars, word_pos, 1, deepest)
                           ELSE deepest
             nxt == follow_bytes(b_step, index)
         IN  IF nxt = PyNone THEN deepest1
             ELSE similar_keys_depth_while(current_prefix, key, nxt, replace_chars,
                                           word_pos + 1, deepest1)
    ELSE deepest

\* The depth of the recursion of _similar_keys(current_prefix, key, index,
\* replace_chars), this call counted.
similar_keys_depth(current_prefix, key, index, replace_chars) ==
  1 + similar_keys_depth_while(current_prefix, key, index, replace_chars,
                               Len(current_prefix), 0)

RECURSIVE prefixes_loop_stale(_, _, _, _)
\* The loop of prefixes testing _has_value at the node it came from.
prefixes_loop_stale(key, pos, index, res) ==
  IF pos > Len(key) THEN res
  ELSE LET nxt == follow_char(key[pos], index)
       IN  IF ~Truthy(nxt) THEN res
           ELSE prefixes_loop_stale(key, pos + 1, nxt,
                  IF DAWG_has_value(index)
                    THEN Append(res, Utf8Decode(SubSeq(key, 1, pos)))
                    ELSE res)

RECURSIVE prefixes_loop(_, _, _, _)
\* The `for ch in key` loop of prefixes, at the pos-th byte.
prefixes_loop(key, pos, index, res) ==
  IF pos > Len(key) THEN res
  ELSE LET nxt == follow_char(key[pos], index)
       IN  IF ~Truthy(nxt) THEN res
           ELSE prefixes_loop(key, pos + 1, nxt,
                  IF DAWG_has_value(nxt)
                    THEN Append(res, Utf8Decode(SubSeq(key, 1, pos)))
                    ELSE res)

\* prefixes(key) for a bytes key (a str is encoded first).
prefixes(key) == prefixes_loop(key, 1, ROOT, <<>>)

(***************************************************************************)
(* dawgs.py: IntDAWG                                                       *)
(***************************************************************************)
IntDAWG_b_get_value(key) == find(key)

\* get testing `if not res` instead of `res == LOOKUP_ERROR`.
IntDAWG_get_falsy(key, default) ==
  LET res == IntDAWG_b_get_value(key)
  IN  IF res = LOOKUP_ERROR \/ res = 0 THEN default ELSE res

\* IntDAWG.get(key, default)
IntDAWG_get(key, default) ==
  LET res == IntDAWG_b_get_value(key)
  IN  IF res = LOOKUP_ERROR THEN default ELSE res

(***************************************************************************)
(* dawgs.py: BytesDAWG.  A result that may be None is [none, val].         *)
(***************************************************************************)
\* self._payload_separator: the separator the object was constructed with,
\* which is the one its file was built with.
self_payload_separator ==
  IF src.kind = "bytes" THEN src.sep ELSE PAYLOAD_SEPARATOR

\* The raw key of a pair in the loaded file.
RawKey(pair) == RawKeyWith(pair, self_payload_separator)

BytesDAWG_follow_key(b_key) ==
  LET index == follow_bytes(b_key, ROOT)
  IN  IF ~Truthy(index) THEN PyNone
      ELSE LET index2 == follow_bytes(self_payload_separator, index)
           IN  IF ~Truthy(index2) THEN PyNone ELSE index2

\* BytesDAWG.__contains__
BytesDAWG_contains(key) == Truthy(BytesDAWG_follow_key(key))

RECURSIVE value_for_index_loop(_, _)
\* The `while completer.next()` loop of _value_for_index.
value_for_index_loop(c, res) ==
  LET n == Completer_next(c)
  IN  IF n.ret THEN value_for_index_loop(n.c, Append(res, a2b_base64(n.c.key)))
      ELSE res

BytesDAWG_value_for_index(index) ==
  value_for_index_loop(Completer_start(index, <<>>), <<>>)

BytesDAWG_b_get_value(b_key) ==
  LET index == BytesDAWG_follow_key(b_key)
  IN  IF ~Truthy(index) THEN <<>> ELSE BytesDAWG_value_for_index(index)

\* BytesDAWG.get(key, default) with default None.
BytesDAWG_get(key) ==
  LET res == BytesDAWG_b_get_value(key)
  IN  IF res # <<>> THEN [none |-> FALSE, val |-> res]
      ELSE [none |-> TRUE, val |-> <<>>]

RECURSIVE BytesDAWG_similar_items(_, _, _, _)
RECURSIVE similar_items_while(_, _, _, _, _, _)
RECURSIVE similar_items_for(_, _, _, _, _, _, _)

similar_items_for(current_prefix, key, index, replace_chars, word_pos, j, res) ==
  LET alts == replace_chars[Utf8Char(key[word_pos + 1])]
  IN  IF j > Len(alts) THEN res
      ELSE LET next_index == follow_bytes(alts[j][1], index)
               prefix == current_prefix
                           \o SubSeq(key, Len(current_prefix) + 1, word_pos)
                           \o alts[j][2]
           IN  similar_items_for(current_prefix, key, index, replace_chars, word_pos, j + 1,
                 IF Truthy(next_index)
                   THEN res \o BytesDAWG_similar_items(prefix, key, next_index, replace_chars)
                   ELSE res)

similar_items_while(current_prefix, key, index, replace_chars, word_pos, res) ==
  IF word_pos < Len(key)
    THEN LET b_step == Utf8Char(key[word_pos + 1])
             res1 == IF b_step \in DOMAIN replace_chars
                       THEN similar_items_for(current_prefix, key, index, replace_chars,
                                              word_pos, 1, res)
                       ELSE res
             nxt == follow_bytes(b_step, index)
         IN  IF ~Truthy(nxt) THEN res1
             ELSE similar_items_while(current_prefix, key, nxt, replace_chars,
                                      word_pos + 1, res1)
    ELSE LET index2 == follow_bytes(self_payload_separator, index)
         IN  IF Truthy(index2)
               THEN << <<current_prefix \o SubSeq(key, Len(current_prefix) + 1, Len(key)),
                         BytesDAWG_value_for_index(index2)>> >> \o res
               ELSE res

\* _similar_items(current_prefix, key, index, replace_chars)
BytesDAWG_similar_items(current_prefix, key, index, replace_chars) ==
  similar_items_while(current_prefix, key, index, replace_chars, Len(current_prefix), <<>>)

similar_items(key, replaces) == BytesDAWG_similar_items(<<>>, key, ROOT, replaces)

RECURSIVE BytesDAWG_similar_item_values(_, _, _, _)
RECURSIVE similar_item_values_while(_, _, _, _, _)
RECURSIVE similar_item_values_for(_, _, _, _, _, _)

similar_item_values_for(key, index, replace_chars, word_pos, j, res) ==
  LET alts == replace_chars[Utf8Char(key[word_pos + 1])]
  IN  IF j > Len(alts) THEN res
      ELSE LET next_index == follow_bytes(alts[j][1], index)
           IN  similar_item_values_for(key, index, replace_chars, word_pos, j + 1,
                 IF Truthy(next_index)
                   THEN res \o BytesDAWG_similar_item_values(word_pos + 1, key, next_index,
                                                             replace_chars)
                   ELSE res)

similar_item_values_while(key, index, replace_chars, word_pos, res) ==
  IF word_pos < Len(key)
    THEN LET b_step == Utf8Char(key[word_pos + 1])
             res1 == IF b_step \in DOMAIN replace_chars
                       THEN similar_item_values_for(key, index, replace_chars, word_pos, 1, res)
                       ELSE res
             nxt == follow_bytes(b_step, index)
         IN  IF ~Truthy(nxt) THEN res1
             ELSE similar_item_values_while(key, nxt, replace_chars, word_pos + 1, res1)
    ELSE LET index2 == follow_bytes(self_payload_separator, index)
         IN  IF Truthy(index2) THEN <<BytesDAWG_value_for_index(index2)>> \o res
             ELSE res

\* _similar_item_values(start_pos, key, index, replace_chars)
BytesDAWG_similar_item_values(start_pos, key, index, replace_chars) ==
  similar_item_values_while(key, index, replace_chars, start_pos, <<>>)

similar_item_values(key, replaces) == BytesDAWG_similar_item_values(0, key, ROOT, replaces)

(***************************************************************************)
(* dawgs.py: iterkeys.  A generator frame is [state, prefix, hasc, c,      *)
(* yielded, rets]: state is "none", "running" or "finished", hasc whether  *)
(* a Completer was made, c the Completer, yielded what the generator has   *)
(* yielded, rets what the calls of c.next() returned, in order.            *)
(***************************************************************************)
NoCompleter == [key |-> <<>>, index_stack |-> <<>>, last_index |-> ROOT]

NoGen ==
  [state |-> "none", prefix |-> <<>>, hasc |-> FALSE, c |-> NoCompleter,
   yielded |-> <<>>, rets |-> <<>>]

\* The result of bytearray.index(sub) when sub is missing (ValueError).
NotFound == -1

\* completer.key.index(self._payload_separator), 0-based.
IndexOf(key, sep) ==
  LET hits == {i \in 1..Len(key) : i + Len(sep) - 1 <= Len(key)
                                   /\ SubSeq(key, i, i + Len(sep) - 1) = sep}
  IN  IF hits = {} THEN NotFound ELSE Min(hits) - 1

\* The start of iterkeys(prefix), up to completer.start: the index to start
\* at, or None when the generator returns without yielding.
\* CompletionDAWG.iterkeys tests `index is None`.
CompletionDAWG_iterkeys_index(b_prefix) ==
  follow_bytes(b_prefix, ROOT)

\* BytesDAWG.iterkeys follows a non-empty prefix only and tests `not index`.
BytesDAWG_iterkeys_index(b_prefix) ==
  IF b_prefix # <<>>
    THEN LET index == follow_bytes(b_prefix, ROOT)
         IN  IF ~Truthy(index) THEN PyNone ELSE index
    ELSE ROOT

iterkeys_index(b_prefix) ==
  IF cls = "BytesDAWG" THEN BytesDAWG_iterkeys_index(b_prefix)
  ELSE CompletionDAWG_iterkeys_index(b_prefix)

\* What iterkeys yields for the key the Completer has assembled.
CompletionDAWG_iterkeys_yield(key) == Utf8Decode(key)

BytesDAWG_iterkeys_yield(key) ==
  LET payload_idx == IndexOf(key, self_payload_separator)
  IN  IF payload_idx = NotFound THEN ValueError
      ELSE Utf8Decode(SubSeq(key, 1, payload_idx))

iterkeys_yield(key) ==
  IF cls = "BytesDAWG" THEN BytesDAWG_iterkeys_yield(key)
  ELSE CompletionDAWG_iterkeys_yield(key)

(***************************************************************************)
(* dawgs.py: item access and items().  A call that may raise returns       *)
(* [raised, val]: the exception (NoError when none) and the value.         *)
(***************************************************************************)
KeyError == "KeyError"

\* __getitem__ returning None for an absent key instead of raising.
IntDAWG_getitem_no_raise(key) ==
  [raised |-> NoError, val |-> IntDAWG_get(key, PyNone)]

\* IntDAWG.__getitem__
IntDAWG_getitem(key) ==
  LET res == IntDAWG_get(key, LOOKUP_ERROR)
  IN  IF res = LOOKUP_ERROR THEN [raised |-> KeyError, val |-> PyNone]
      ELSE [raised |-> NoError, val |-> res]

\* BytesDAWG.__getitem__
BytesDAWG_getitem(key) ==
  LET res == BytesDAWG_get(key)
  IN  IF res.none THEN [raised |-> KeyError, val |-> <<>>]
      ELSE [raised |-> NoError, val |-> res.val]

RECURSIVE Split(_, _)
\* bytearray.split(sep): the pieces between the occurrences of sep.
Split(key, sep) ==
  LET idx == IndexOf(key, sep)
  IN  IF idx = NotFound THEN <<key>>
      ELSE <<SubSeq(key, 1, idx)>>
             \o Split(SubSeq(key, idx + Len(sep) + 1, Len(key)), sep)

\* IntCompletionDAWG.iteritems and BytesDAWG.iteritems follow a non-empty
\* prefix only and test `not index`.
iteritems_index(b_prefix) ==
  IF b_prefix # <<>>
    THEN LET index == follow_bytes(b_prefix, ROOT)
         IN  IF ~Truthy(index) THEN PyNone ELSE index
    ELSE ROOT

\* The yield with the value read at the index the Completer was started
\* at instead of the index it visited last.
IntCompletionDAWG_iteritems_yield_start_index(c) ==
  <<Utf8Decode(c.key), dct_value(c.index_stack[1])>>

\* yield completer.key.decode("utf8"), completer.value()
IntCompletionDAWG_iteritems_yield(c) == <<Utf8Decode(c.key), Completer_value(c)>>

\* key, value = completer.key.split(sep); yield (key.decode("utf8"), a2b_base64(value))
BytesDAWG_iteritems_yield(c) ==
  LET parts == Split(c.key, self_payload_separator)
  IN  IF Len(parts) # 2 THEN ValueError
      ELSE <<Utf8Decode(parts[1]), a2b_base64(parts[2])>>

iteritems_yield(c) ==
  IF cls = "BytesDAWG" THEN BytesDAWG_iteritems_yield(c)
  ELSE IntCompletionDAWG_iteritems_yield(c)

RECURSIVE iteritems_loop(_, _)
\* The `while completer.next(): yield ...` loop of iteritems, run to its end
\* by list().
iteritems_loop(c, res) ==
  LET n == Completer_next(c)
  IN  IF n.ret THEN iteritems_loop(n.c, Append(res, iteritems_yield(n.c)))
      ELSE res

\* items(prefix) == list(self.iteritems(prefix))
items(prefix) ==
  LET b_prefix == Utf8Encode(prefix)
      index == iteritems_index(b_prefix)
  IN  IF index = PyNone THEN <<>>
      ELSE iteritems_loop(Completer_start(index, b_prefix), <<>>)

(***************************************************************************)
(* The arguments of the calls.                                             *)
(***************************************************************************)
\* The byte strings asked for.
QueryBytes == {0, 97, 98}

ByteQueries ==
  UNION {[1..n -> QueryBytes] : n \in 0..3}
    \cup {Utf8Encode(<<233>>), <<195>>, <<1>>, <<97, 1>>, Cat, Car, Care, <<99, 97>>,
          Color}

\* The strings asked for: prefixes of keys() and queries of similar_keys.
StrQueries ==
  { <<>>, <<97>>, <<98>>, <<97, 98>>, <<98, 97>>, <<97, 97>>, <<98, 98>>,
    <<97, 98, 98>>, <<97, 98, 97>>, <<101>>, <<233>>, <<99>>, <<99, 97>>, Car,
    <<99, 111, 108>>, Color, Col0r, C0l0r }

\* The replacement mappings: {"o": ["0"]}, {"0": ["o"]}, {"a": ["b"]},
\* {"a": ["b"], "b": ["a"]}, {"e": ["e-acute"], "b": ["a", "b"]}.
\* {"o": ["0"]} and {"0": ["o"]}
ReplO0 == [k \in {<<111>>} |-> ListValue(<< <<48>> >>)]
Repl0O == [k \in {<<48>>} |-> ListValue(<< <<111>> >>)]

Replaces ==
  { ReplO0,
    Repl0O,
    [k \in {<<97>>} |-> ListValue(<< <<98>> >>)],
    [k \in {<<97>>, <<98>>} |->
       IF k = <<97>> THEN ListValue(<< <<98>> >>) ELSE ListValue(<< <<97>> >>)],
    [k \in {<<101>>, <<98>>} |->
       IF k = <<101>> THEN ListValue(<< <<233>> >>) ELSE ListValue(<< <<97>>, <<98>> >>)] }

\* Mappings with a str as value: {"a": "b"}, {"e": "e-acute", "b": ["a"]}.
StrReplaces ==
  { [k \in {<<97>>} |-> StrValue(<<98>>)],
    [k \in {<<101>>, <<98>>} |->
       IF k = <<101>> THEN StrValue(<<233>>) ELSE ListValue(<< <<97>> >>)] }

\* Mappings compile_replaces has to refuse: {"ab": ["c"]}, {"": ["a"]},
\* {"a": "bc"}, {"a": ""}, {"a": []}, {"a": ["b", "cd"]}, {"a": ["", "b"]},
\* {"a": ["b"], "b": "ab"}, {"a": "b", "ba": "a"}.
BadReplaces ==
  { [k \in {<<97, 98>>} |-> ListValue(<< <<99>> >>)],
    [k \in {<<>>} |-> ListValue(<< <<97>> >>)],
    [k \in {<<97>>} |-> StrValue(<<98, 99>>)],
    [k \in {<<97>>} |-> StrValue(<<>>)],
    [k \in {<<97>>} |-> ListValue(<<>>)],
    [k \in {<<97>>} |-> ListValue(<< <<98>>, <<99, 100>> >>)],
    [k \in {<<97>>} |-> ListValue(<< <<>>, <<98>> >>)],
    [k \in {<<97>>, <<98>>} |->
       IF k = <<97>> THEN ListValue(<< <<98>> >>) ELSE StrValue(<<97, 98>>)],
    [k \in {<<97>>, <<98, 97>>} |->
       IF k = <<97>> THEN StrValue(<<98>>) ELSE StrValue(<<97>>)] }

\* The defaults passed to IntDAWG.get: None and a number no dictionary holds.
Defaults == {PyNone, 5}

\* How often next() is called again on a Completer that has returned False.
MaxExtraCalls == 2

GenIds == {1, 2}

(***************************************************************************)
(* Reading a file.  The stream holds the number of units (4 bytes), the    *)
(* units (4 bytes each), the number of guide pairs (4 bytes) and the guide *)
(* (1 byte each, two per pair).  A stream that ends early is described by  *)
(* the field it ends in, the whole items of that field it still holds (n)  *)
(* and the bytes of a broken item after them (rest).                       *)
(***************************************************************************)
\* Where the truncated streams of the model end.
Cuts ==
  { [part |-> "dict_size", n |-> 0, rest |-> 2],
    [part |-> "dict_units", n |-> 0, rest |-> 0],
    [part |-> "dict_units", n |-> 3, rest |-> 0],
    [part |-> "dict_units", n |-> 3, rest |-> 2],
    [part |-> "dict_units", n |-> BLOCK_SIZE - 1, rest |-> 0],
    [part |-> "guide_size", n |-> 0, rest |-> 0],
    [part |-> "guide_units", n |-> 3, rest |-> 0],
    [part |-> "guide_units", n |-> (2 * BLOCK_SIZE) - 1, rest |-> 0] }

\* Dictionary.read(fp) into a new Dictionary: struct.unpack fails on a
\* short count; array.fromfile raises ValueError and appends nothing when
\* the bytes read are no whole number of items, and raises EOFError after
\* appending the items read when they are fewer than the count.
Dictionary_read(file_units, cut) ==
  IF cut.part = "dict_size" THEN [units |-> <<>>, raised |-> StructError]
  ELSE IF cut.part = "dict_units"
    THEN IF cut.rest # 0 THEN [units |-> <<>>, raised |-> ValueError]
         ELSE [units |-> SubSeq(file_units, 1, cut.n), raised |-> EOFError]
  ELSE [units |-> file_units, raised |-> NoError]

\* Guide.read(fp) into a new Guide: its items are single bytes.
Guide_read(file_guide, cut) ==
  IF cut.part = "guide_size" THEN [units |-> <<>>, raised |-> StructError]
  ELSE IF cut.part = "guide_units"
    THEN [units |-> SubSeq(file_guide, 1, cut.n), raised |-> EOFError]
  ELSE [units |-> file_guide, raised |-> NoError]

(***************************************************************************)
(* The operations.                                                         *)
(***************************************************************************)
NoCall == <<"none", <<>>, <<>>>>

Init ==
  /\ cls = "none"
  /\ src = NoSource
  /\ dictionary = <<>>
  /\ guide = <<>>
  /\ pc = "idle"
  /\ called = NoCall
  /\ gen = [g \in GenIds |-> NoGen]

\* The class of the object a file is loaded into.
ClassOf(source) == IF source.kind = "int" THEN "IntCompletionDAWG" ELSE "BytesDAWG"

\* load() is called on a fresh object, on a loaded one, or after a load
\* has failed; only between calls, when no enumeration runs.
CanLoad(source) ==
  /\ pc \in {"idle", "raised"}
  /\ cls \in {"none", ClassOf(source)}
  /\ (src.kind = "bytes" /\ source.kind = "bytes") => source.sep = src.sep

\* IntCompletionDAWG().load(path) / BytesDAWG().load(path): CompletionDAWG.load
\* reads the unit array, then the guide array.
Load(source) ==
  /\ CanLoad(source)
  /\ dictionary' = Files[source].units
  /\ guide' = Files[source].guide
  /\ cls' = ClassOf(source)
  /\ src' = source
  /\ pc' = "idle"
  /\ called' = NoCall
  /\ UNCHANGED gen

\* CompletionDAWG.load(path) of a file that ends at cut: self.dct and
\* self.guide are bound to new, empty objects before anything is read, each
\* read fills its own array, and the first error leaves load().
LoadTruncated(source, cut) ==
  /\ CanLoad(source)
  /\ LET d == Dictionary_read(Files[source].units, cut)
         g == IF d.raised = NoError THEN Guide_read(Files[source].guide, cut)
              ELSE [units |-> <<>>, raised |-> d.raised]
     IN  /\ dictionary' = d.units
         /\ guide' = g.units
         /\ called' = <<"load", cut, g.raised>>
  /\ cls' = ClassOf(source)
  /\ src' = source
  /\ pc' = "raised"
  /\ UNCHANGED gen

Ready == cls # "none" /\ pc = "idle"

Returns(op, arg, ret) ==
  /\ called' = <<op, arg, ret>>
  /\ pc' = "returned"
  /\ UNCHANGED <<cls, src, dictionary, guide, gen>>

\* key in dawg: DAWG.__contains__, overridden by BytesDAWG.
Contains(key) ==
  /\ Ready
  /\ Returns("contains", key,
             IF cls = "BytesDAWG" THEN BytesDAWG_contains(key) ELSE contains(key))

\* dawg.dct.find(key)
Find(key) ==
  /\ Ready /\ cls = "IntCompletionDAWG"
  /\ Returns("find", key, find(key))

\* IntDAWG.get(key, default)
IntGet(key, default) ==
  /\ Ready /\ cls = "IntCompletionDAWG"
  /\ Returns("get", <<key, default>>, IntDAWG_get(key, default))

\* BytesDAWG.get(key)
BytesGet(key) ==
  /\ Ready /\ cls = "BytesDAWG"
  /\ Returns("bget", key, BytesDAWG_get(key))

\* dawg.prefixes(key)
Prefixes(key) ==
  /\ Ready
  /\ Returns("prefixes", key, prefixes(key))

\* DAWG.compile_replaces(mapping), a static method: callable before load().
CompileReplaces(mapping) ==
  /\ pc = "idle"
  /\ called' = <<"compile_replaces", mapping,
                  IF compile_replaces_raises(mapping)
                    THEN [raised |-> compile_replaces(mapping), table |-> compiled_table(<<>>)]
                    ELSE [raised |-> NoError, table |-> compile_replaces(mapping)]>>
  /\ pc' = "returned"
  /\ UNCHANGED <<cls, src, dictionary, guide, gen>>

\* dawg.similar_keys(key, DAWG.compile_replaces(mapping))
SimilarKeys(key, mapping) ==
  /\ Ready
  /\ Returns("similar_keys", <<key, mapping>>,
             similar_keys(key, compile_replaces(mapping)))

\* dawg.similar_items(key, DAWG.compile_replaces(mapping))
SimilarItems(key, mapping) ==
  /\ Ready /\ cls = "BytesDAWG"
  /\ Returns("similar_items", <<key, mapping>>,
             similar_items(key, compile_replaces(mapping)))

\* dawg.similar_item_values(key, DAWG.compile_replaces(mapping))
SimilarItemValues(key, mapping) ==
  /\ Ready /\ cls = "BytesDAWG"
  /\ Returns("similar_item_values", <<key, mapping>>,
             similar_item_values(key, compile_replaces(mapping)))

\* dawg[key]: IntDAWG.__getitem__
IntGetItem(key) ==
  /\ Ready /\ cls = "IntCompletionDAWG"
  /\ Returns("getitem", key, IntDAWG_getitem(key))

\* dawg[key]: BytesDAWG.__getitem__
BytesGetItem(key) ==
  /\ Ready /\ cls = "BytesDAWG"
  /\ Returns("bgetitem", key, BytesDAWG_getitem(key))

\* dawg.items(prefix) of an IntCompletionDAWG
IntItems(prefix) ==
  /\ Ready /\ cls = "IntCompletionDAWG"
  /\ Returns("items", prefix, items(prefix))

\* dawg.items(prefix) of a BytesDAWG
BytesItems(prefix) ==
  /\ Ready /\ cls = "BytesDAWG"
  /\ Returns("bitems", prefix, items(prefix))

\* The caller takes the result.
Return ==
  /\ pc = "returned"
  /\ pc' = "idle"
  /\ called' = NoCall
  /\ UNCHANGED <<cls, src, dictionary, guide, gen>>

\* iterkeys(prefix) up to its loop: the prefix is resolved and, when it
\* resolves, a fresh Completer is started; otherwise the generator is done.
IterKeysStart(g, prefix) ==
  /\ cls # "none" /\ pc \in {"idle", "iter"}
  /\ gen[g].state = "none"
  /\ LET b_prefix == Utf8Encode(prefix)
         index == iterkeys_index(b_prefix)
     IN  gen' = [gen EXCEPT ![g] =
           IF index = PyNone
             THEN [NoGen EXCEPT !.state = "finished", !.prefix = b_prefix]
             ELSE [NoGen EXCEPT !.state = "running", !.prefix = b_prefix,
                                !.hasc = TRUE,
                                !.c = Completer_start(index, b_prefix)]]
  /\ pc' = "iter"
  /\ UNCHANGED <<cls, src, dictionary, guide, called>>

\* One turn of the loop with a Completer that belongs to the DAWG object and
\* is shared by its enumerations, instead of one made by each iterkeys call.
IterKeysNext_shared(g) ==
  /\ gen[g].state = "running"
  /\ LET n == Completer_next(gen[1].c)
     IN  gen' = [h \in GenIds |->
           IF h = g
             THEN [gen[g] EXCEPT !.c = n.c,
                     !.rets = Append(@, n.ret),
                     !.yielded = IF n.ret THEN Append(@, iterkeys_yield(n.c.key)) ELSE @,
                     !.state = IF n.ret THEN "running" ELSE "finished"]
             ELSE [gen[h] EXCEPT !.c = n.c]]
  /\ UNCHANGED <<cls, src, dictionary, guide, pc, called>>

\* One turn of `while completer.next(): yield ...`.
IterKeysNext(g) ==
  /\ gen[g].state = "running"
  /\ LET n == Completer_next(gen[g].c)
     IN  gen' = [gen EXCEPT ![g] =
           [@ EXCEPT !.c = n.c,
                     !.rets = Append(@, n.ret),
                     !.yielded = IF n.ret THEN Append(@, iterkeys_yield(n.c.key)) ELSE @,
                     !.state = IF n.ret THEN "running" ELSE "finished"]]
  /\ UNCHANGED <<cls, src, dictionary, guide, pc, called>>

\* next() called again on a Completer that has returned False.
CompleterNextAgain(g) ==
  /\ gen[g].state = "finished"
  /\ gen[g].hasc
  /\ Len(gen[g].rets) < Len(gen[g].yielded) + 1 + MaxExtraCalls
  /\ LET n == Completer_next(gen[g].c)
     IN  gen' = [gen EXCEPT ![g] = [@ EXCEPT !.c = n.c, !.rets = Append(@, n.ret)]]
  /\ UNCHANGED <<cls, src, dictionary, guide, pc, called>>

\* The enumeration is dropped.
IterClose(g) ==
  /\ gen[g].state = "finished"
  /\ gen' = [gen EXCEPT ![g] = NoGen]
  /\ pc' = IF \A h \in GenIds \ {g} : gen[h].state = "none" THEN "idle" ELSE "iter"
  /\ UNCHANGED <<cls, src, dictionary, guide, called>>

Next ==
  \/ \E source \in Sources : Load(source)
  \/ \E source \in Sources, cut \in Cuts : LoadTruncated(source, cut)
  \/ \E key \in ByteQueries : Contains(key)
  \/ \E key \in ByteQueries : Find(key)
  \/ \E key \in ByteQueries, default \in Defaults : IntGet(key, default)
  \/ \E key \in ByteQueries : BytesGet(key)
  \/ \E key \in ByteQueries : Prefixes(key)
  \/ \E mapping \in Replaces \cup StrReplaces \cup BadReplaces : CompileReplaces(mapping)
  \/ \E key \in StrQueries, mapping \in Replaces : SimilarKeys(key, mapping)
  \/ \E key \in StrQueries, mapping \in Replaces : SimilarItems(key, mapping)
  \/ \E key \in StrQueries, mapping \in Replaces : SimilarItemValues(key, mapping)
  \/ \E key \in ByteQueries : IntGetItem(key)
  \/ \E key \in ByteQueries : BytesGetItem(key)
  \/ \E prefix \in StrQueries : IntItems(prefix)
  \/ \E prefix \in StrQueries : BytesItems(prefix)
  \/ Return
  \/ \E prefix \in StrQueries : IterKeysStart(1, prefix)
  \/ IterKeysNext(1)
  \/ CompleterNextAgain(1)
  \/ IterClose(1)

Spec == Init /\ [][Next]_vars

(***************************************************************************)
(* Several enumerations of one dictionary at a time: every generator made  *)
(* by iterkeys may take the next turn of its loop, in any order.           *)
(***************************************************************************)
\* The prefixes of the enumerations that run side by side.
InterleavedPrefixes == {<<>>, <<97>>, <<98>>, <<99, 97>>}

NextInterleaved ==
  \/ \E source \in Sources : Load(source)
  \/ \E g \in GenIds, prefix \in InterleavedPrefixes : IterKeysStart(g, prefix)
  \/ \E g \in GenIds : IterKeysNext(g)
  \/ \E g \in GenIds : IterClose(g)

SpecInterleaved == Init /\ [][NextInterleaved]_vars

(***************************************************************************)
(* BytesDAWG(payload_separator=s) over a file built with s: the key tests  *)
(* of one object, for the default separator and for another one.           *)
(***************************************************************************)
BytesSources == {source \in Sources \cup SeparatorSources : source.kind = "bytes"}

NextSeparator ==
  \/ \E source \in BytesSources : Load(source)
  \/ \E key \in ByteQueries : Contains(key)
  \/ \E key \in ByteQueries : BytesGet(key)
  \/ \E key \in ByteQueries : Prefixes(key)
  \/ \E key \in StrQueries, mapping \in Replaces : SimilarKeys(key, mapping)
  \/ \E key \in StrQueries, mapping \in Replaces : SimilarItems(key, mapping)
  \/ \E prefix \in StrQueries : BytesItems(prefix)
  \/ Return
  \/ \E prefix \in StrQueries : IterKeysStart(1, prefix)
  \/ IterKeysNext(1)
  \/ IterClose(1)

SpecSeparator == Init /\ [][NextSeparator]_vars

(***************************************************************************)
(* What the loaded dictionary was built from.                              *)
(***************************************************************************)
IsInt == cls = "IntCompletionDAWG"
IsBytes == cls = "BytesDAWG"

\* The keys of the dictionary as the caller gave them (strings).
UserKeys == IF IsInt THEN DOMAIN src.map ELSE {pr[1] : pr \in src.pairs}

\* The keys of the file, and those below a prefix.
FileKeys == RawKeys(src)
FileKeysUnder(b_prefix) == {r \in FileKeys : IsPrefix(b_prefix, r)}

Returned(op) == pc = "returned" /\ call.op = op

(***************************************************************************)
(* C1.  In an integer dictionary built from the key set K, contains(k) is  *)
(* true exactly for the byte strings k of K, and find(k) and get(k) give   *)
(* the integer stored for k when k is in K.                                *)
(***************************************************************************)
C1_ExactLookup ==
  IsInt =>
    /\ Returned("contains") => (call.ret <=> call.arg \in FileKeys)
    /\ (Returned("find") /\ call.arg \in FileKeys)
         => call.ret = RawVal(src)[call.arg]
    /\ (Returned("get") /\ call.arg[1] \in FileKeys)
         => call.ret = RawVal(src)[call.arg[1]]

\* get("car") has returned 2 from {"cat": 1, "car": 2, "care": 3}.
C1_Witness ==
  /\ IsInt /\ Returned("get") /\ call.arg[1] = Car /\ call.ret = 2
  /\ Cat \in FileKeys

(***************************************************************************)
(* C2.  keys(p) of a CompletionDAWG yields exactly the keys that start     *)
(* with p, each once, in the order of the Guide, which lists the children  *)
(* of a node by increasing byte, so depth first is the lexicographic order *)
(* of the encoded keys; it yields nothing when p does not resolve.  At any *)
(* moment what has been yielded is the beginning of that list.             *)
(***************************************************************************)
C2_KeysExact ==
  \A g \in GenIds :
    (IsInt /\ gen[g].state # "none") =>
      LET expect == LexSorted(FileKeysUnder(gen[g].prefix))
      IN  /\ Len(gen[g].yielded) <= Len(expect)
          /\ \A i \in 1..Len(gen[g].yielded) : gen[g].yielded[i] = Utf8Decode(expect[i])
          /\ gen[g].state = "finished" => Len(gen[g].yielded) = Len(expect)

\* keys("car") has finished after yielding "car" and "care".
C2_Witness ==
  /\ IsInt /\ gen[1].state = "finished" /\ gen[1].prefix = Car
  /\ gen[1].yielded = <<Car, Care>>

(***************************************************************************)
(* C3.  Every enumeration ends: with n keys below the start node, the      *)
(* calls of next() after the n-th return False, and once next() has        *)
(* returned False every later call returns False.                          *)
(***************************************************************************)
C3_NextTerminates ==
  \A g \in GenIds :
    gen[g].hasc =>
      LET n == Cardinality(FileKeysUnder(gen[g].prefix))
          rets == gen[g].rets
      IN  /\ \A i \in 1..Len(rets) : i > n => ~rets[i]
          /\ \A i, j \in 1..Len(rets) : (i < j /\ ~rets[i]) => ~rets[j]

\* An enumeration started at a node that is itself a key: next() returned
\* True twice and then False twice.
C3_Witness ==
  /\ gen[1].hasc /\ has_value(follow_bytes(gen[1].prefix, ROOT))
  /\ gen[1].rets = <<TRUE, TRUE, FALSE, FALSE>>

C5_AbsentOrValue ==
  IsInt =>
    /\ Returned("find") =>
         /\ (call.ret = -1 <=> call.arg \notin FileKeys)
         /\ call.arg \in FileKeys => call.ret \in 0..2147483647
    /\ Returned("get") =>
         /\ (call.ret = call.arg[2] <=> call.arg[1] \notin FileKeys)
         /\ call.arg[1] \in FileKeys => call.ret = RawVal(src)[call.arg[1]]

\* get(key, None) has returned 0 for a key stored with the value 0.
C5_Witness ==
  /\ IsInt /\ Returned("get") /\ call.arg[2] = PyNone
  /\ call.arg[1] \in FileKeys /\ RawVal(src)[call.arg[1]] = 0 /\ call.ret = 0

(***************************************************************************)
(* C6.  BytesDAWG.get(k) returns exactly the payloads inserted under k,    *)
(* once each, in the Completer's order (the order of their base64 text in  *)
(* the file), and the default (None) when k has no payload.                *)
(***************************************************************************)
\* The payloads stored under the encoded key b_key, in the file's order.
PayloadsOf(b_key) ==
  LET raws == LexSorted({RawKey(pr) : pr \in {x \in src.pairs : Utf8Encode(x[1]) = b_key}})
  IN  [i \in 1..Len(raws) |-> (CHOOSE pr \in src.pairs : RawKey(pr) = raws[i])[2]]

C6_GetExact ==
  (IsBytes /\ Returned("bget")) =>
    IF PayloadsOf(call.arg) = <<>> THEN call.ret.none
    ELSE ~call.ret.none /\ call.ret.val = PayloadsOf(call.arg)

\* The same for the keys that are not the empty string.
C6_GetExactNonEmptyKey ==
  (IsBytes /\ Returned("bget") /\ call.arg # <<>>) =>
    IF PayloadsOf(call.arg) = <<>> THEN call.ret.none
    ELSE ~call.ret.none /\ call.ret.val = PayloadsOf(call.arg)

(***************************************************************************)
(* C7.  BytesDAWG.keys(prefix) yields the inserted keys that start with    *)
(* prefix, each key once, however many payloads it has.                    *)
(***************************************************************************)
NoDuplicates(seq) == \A i, j \in 1..Len(seq) : i # j => seq[i] # seq[j]

C7_BytesKeysOnce ==
  \A g \in GenIds :
    (IsBytes /\ gen[g].state = "finished") =>
      /\ Range(gen[g].yielded) = {k \in UserKeys : IsPrefix(gen[g].prefix, Utf8Encode(k))}
      /\ NoDuplicates(gen[g].yielded)

\* What the code does: one yield per (key, payload) pair under the prefix.
C7_BytesKeysPerPayload ==
  \A g \in GenIds :
    (IsBytes /\ gen[g].state = "finished") =>
      LET raws == LexSorted(FileKeysUnder(gen[g].prefix))
      IN  gen[g].yielded =
            [i \in 1..Len(raws) |-> (CHOOSE pr \in src.pairs : RawKey(pr) = raws[i])[1]]

(***************************************************************************)
(* The matches of the fuzzy matcher, stated on the key set: from the       *)
(* position after prefix the walk goes on while the query's own            *)
(* characters are a path of the dictionary; the result is the literal      *)
(* match, if the query's remainder leads to a key, followed by the results *)
(* of the substitution branches, by position and by the order of the       *)
(* alternates.                                                             *)
(***************************************************************************)
IsPath(str) == \E r \in FileKeys : IsPrefix(Utf8Encode(str), r)

\* The alternates a mapping gives for a character.
Alts(t, ch) == IF <<ch>> \in DOMAIN t THEN t[<<ch>>].v ELSE <<>>

RECURSIVE RefSimilar(_, _, _)
RECURSIVE RefSubs(_, _, _, _, _)

RefSubs(q, t, prefix, wp, j) ==
  LET cur == prefix \o SubSeq(q, Len(prefix) + 1, wp)
  IN  IF wp >= Len(q) \/ ~IsPath(cur) THEN <<>>
      ELSE LET alts == Alts(t, q[wp + 1])
           IN  IF j > Len(alts) THEN RefSubs(q, t, prefix, wp + 1, 1)
               ELSE (IF IsPath(cur \o alts[j]) THEN RefSimilar(q, t, cur \o alts[j])
                     ELSE <<>>)
                    \o RefSubs(q, t, prefix, wp, j + 1)

RefSimilar(q, t, prefix) ==
  LET lit == prefix \o SubSeq(q, Len(prefix) + 1, Len(q))
  IN  (IF lit \in UserKeys THEN <<lit>> ELSE <<>>) \o RefSubs(q, t, prefix, Len(prefix), 1)

(***************************************************************************)
(* C8, as stated: with the table of {"o": ["0"]} and a dictionary that     *)
(* contains "color", similar_keys("col0r", table) includes "color".        *)
(***************************************************************************)
C8_Original ==
  (Returned("similar_keys") /\ call.arg = <<Col0r, ReplO0>> /\ Color \in UserKeys)
    => Color \in Range(call.ret)

(***************************************************************************)
(* C8, amended.  A character of the query that is a key of the table is    *)
(* matched against the dictionary keys that have one of its alternates at  *)
(* that position: every key that differs from the query in one position,   *)
(* by an alternate of the query's character there, is in the result.  So   *)
(* with the table of {"0": ["o"]} and a dictionary that contains "color",  *)
(* similar_keys("col0r", table) includes "color", and with the table of    *)
(* {"o": ["0"]} and a dictionary that contains "col0r",                    *)
(* similar_keys("color", table) includes "col0r".                          *)
(***************************************************************************)
C8_AlternateOfQueryChar ==
  Returned("similar_keys") =>
    LET q == call.arg[1]
        t == call.arg[2]
    IN  /\ \A i \in 1..Len(q) : \A j \in 1..Len(Alts(t, q[i])) :
             LET v == [q EXCEPT ![i] = Alts(t, q[i])[j][1]]
             IN  v \in UserKeys => v \in Range(call.ret)
        /\ (call.arg = <<Col0r, Repl0O>> /\ Color \in UserKeys)
             => Color \in Range(call.ret)
        /\ (call.arg = <<Color, ReplO0>> /\ Col0r \in UserKeys)
             => Col0r \in Range(call.ret)

\* similar_keys("col0r", table of {"0": ["o"]}) has returned ["color"] from
\* the dictionary {"color"}.
C8_Witness ==
  /\ Returned("similar_keys") /\ call.arg = <<Col0r, Repl0O>>
  /\ UserKeys = {Color} /\ call.ret = <<Color>>

(***************************************************************************)
(* C9.  The unmodified path is always explored: similar_keys(q, t)         *)
(* contains q whenever q is a key of the dictionary, whatever alternates t *)
(* has for the characters of q.                                            *)
(***************************************************************************)
C9_QueryItself ==
  (Returned("similar_keys") /\ call.arg[1] \in UserKeys)
    => call.arg[1] \in Range(call.ret)

\* similar_keys("color", table of {"o": ["0"]}) has returned "color" and its
\* three other spellings.
C9_Witness ==
  /\ Returned("similar_keys") /\ call.arg = <<Color, ReplO0>>
  /\ Color \in Range(call.ret) /\ Len(call.ret) = 4

(***************************************************************************)
(* C10, as stated: the literal match of a level comes after that level's   *)
(* substitution matches, so a result that holds the query itself and other *)
(* matches ends with the query.                                            *)
(***************************************************************************)
C10_Original ==
  (Returned("similar_keys") /\ call.arg[1] \in UserKeys)
    => call.ret[Len(call.ret)] = call.arg[1]

(***************************************************************************)
(* C10, amended.  At each level the literal match is put at the front of   *)
(* that level's result (res.insert(0, ...)), before the matches of the     *)
(* level's substitution branches, which follow by position and by the      *)
(* order of the alternates; similar_items lists its keys, and              *)
(* similar_item_values its values, in the same order.  The result is a     *)
(* function of the dictionary, the query and the table.                    *)
(***************************************************************************)
C10_LiteralFirst ==
  /\ Returned("similar_keys") =>
       /\ call.ret = RefSimilar(call.arg[1], call.arg[2], <<>>)
       /\ call.arg[1] \in UserKeys => call.ret[1] = call.arg[1]
  /\ Returned("similar_items") =>
       /\ [i \in 1..Len(call.ret) |-> call.ret[i][1]]
            = RefSimilar(call.arg[1], call.arg[2], <<>>)
       /\ \A i \in 1..Len(call.ret) :
            call.ret[i][2] = PayloadsOf(Utf8Encode(call.ret[i][1]))
  /\ Returned("similar_item_values") =>
       LET keys == RefSimilar(call.arg[1], call.arg[2], <<>>)
       IN  call.ret = [i \in 1..Len(keys) |-> PayloadsOf(Utf8Encode(keys[i]))]

\* similar_keys("color", table of {"o": ["0"]}) has returned the query
\* first, then the matches of the substitution branches.
C10_Witness ==
  /\ Returned("similar_keys") /\ call.arg = <<Color, ReplO0>>
  /\ call.ret = <<Color, C0lor, C0l0r, Col0r>>

(***************************************************************************)
(* C11.  A load from a stream that ends early raises and leaves no partial *)
(* structure: after a failed load the unit array and the guide array of   *)
(* the object are each complete (as long as the count the file declares)  *)
(* or empty, never a shorter, partly read array.                           *)
(***************************************************************************)
LoadFailed == pc = "raised" /\ call.op = "load"

C11_NoPartialStructure ==
  LoadFailed =>
    /\ call.ret \in {StructError, EOFError, ValueError}
    /\ Len(dictionary) \in {0, BLOCK_SIZE}
    /\ Len(guide) \in {0, 2 * BLOCK_SIZE}

(***************************************************************************)
(* C12.  A lookup miss is never an error.  For a key that is not in the    *)
(* dictionary contains is false, find is -1, get is the default; for a     *)
(* string no key is a prefix of, prefixes is empty; for a prefix no key    *)
(* starts with, keys and items are empty and next() only returns False;    *)
(* for a query none of whose variants is a key, similar_keys and           *)
(* similar_items are empty.                                                *)
(***************************************************************************)
\* The encoded keys of the dictionary as the caller gave them.
UserKeyBytes == {Utf8Encode(k) : k \in UserKeys}
Absent(b_key) == b_key \notin UserKeyBytes
NothingUnder(b_prefix) == \A k \in UserKeyBytes : ~IsPrefix(b_prefix, k)

MissIsAbsent ==
  /\ (Returned("contains") /\ Absent(call.arg)) => call.ret = FALSE
  /\ (Returned("find") /\ Absent(call.arg)) => call.ret = LOOKUP_ERROR
  /\ (Returned("get") /\ Absent(call.arg[1])) => call.ret = call.arg[2]
  /\ (Returned("bget") /\ Absent(call.arg)) => call.ret = [none |-> TRUE, val |-> <<>>]
  /\ (Returned("prefixes") /\ \A k \in UserKeyBytes : ~IsPrefix(k, call.arg)) =>
       call.ret = <<>>
  /\ ((Returned("items") \/ Returned("bitems")) /\ NothingUnder(Utf8Encode(call.arg))) =>
       call.ret = <<>>
  /\ ((Returned("similar_keys") \/ Returned("similar_items"))
        /\ RefSimilar(call.arg[1], call.arg[2], <<>>) = <<>>) =>
       call.ret = <<>>
  /\ \A g \in GenIds :
       (gen[g].state = "finished" /\ NothingUnder(gen[g].prefix)) =>
         /\ gen[g].yielded = <<>>
         /\ \A i \in 1..Len(gen[g].rets) : ~gen[g].rets[i]

GetItemMiss ==
  (Returned("getitem") \/ Returned("bgetitem")) /\ Absent(call.arg)

\* C12, as stated: item access by an absent key raises nothing either.
C12_Original ==
  /\ MissIsAbsent
  /\ GetItemMiss => call.ret.raised = NoError

\* C12, amended: every operation but item access answers a miss with its
\* absent or empty result; item access dawg[key] raises KeyError for an
\* absent key.
C12_MissIsAbsentButGetItem ==
  /\ MissIsAbsent
  /\ GetItemMiss => call.ret.raised = KeyError

\* dawg[key] of an integer dictionary has raised KeyError for an absent key
\* that is the beginning of a key.
C12_Witness ==
  /\ IsInt /\ Returned("getitem") /\ Absent(call.arg)
  /\ NothingUnder(call.arg) = FALSE
  /\ call.ret.raised = KeyError

(***************************************************************************)
(* C13.  Queries leave the arrays as load() read them, and every           *)
(* enumeration has a Completer of its own: however the turns of several    *)
(* enumerations of one dictionary are interleaved, each has yielded the    *)
(* beginning of the list it yields when it runs alone, and the whole list  *)
(* when it has finished.                                                   *)
(***************************************************************************)
\* What keys(prefix) yields when nothing else runs: one string per key of
\* the file under the prefix, in the order of the encoded keys.
KeysAlone(b_prefix) ==
  LET raws == LexSorted(FileKeysUnder(b_prefix))
  IN  [i \in 1..Len(raws) |->
         IF IsInt THEN Utf8Decode(raws[i])
         ELSE (CHOOSE pr \in src.pairs : RawKey(pr) = raws[i])[1]]

C13_InterleavedAsAlone ==
  cls # "none" =>
    /\ dictionary = Files[src].units
    /\ guide = Files[src].guide
    /\ \A g \in GenIds :
         gen[g].state # "none" =>
           LET alone == KeysAlone(gen[g].prefix)
           IN  /\ Len(gen[g].yielded) <= Len(alone)
               /\ gen[g].yielded = SubSeq(alone, 1, Len(gen[g].yielded))
               /\ gen[g].state = "finished" => gen[g].yielded = alone

\* keys("ca") has yielded "car" and keys("") of the same dictionary, started
\* later, has yielded "car" and "care"; both go on.
C13_Witness ==
  /\ gen[1].state = "running" /\ gen[1].prefix = <<99, 97>> /\ gen[1].yielded = <<Car>>
  /\ gen[2].state = "running" /\ gen[2].prefix = <<>> /\ gen[2].yielded = <<Car, Care>>

(***************************************************************************)
(* C14.  compile_replaces(mapping) raises ValueError exactly when a key of *)
(* the mapping is not one character long or a value is neither one         *)
(* character nor a non-empty list of single characters; it then returns no *)
(* table; an accepted mapping gives a table with one entry per key that    *)
(* lists the key's alternates in the given order; and similar_keys on a    *)
(* compiled table returns a list of keys.                                  *)
(***************************************************************************)
\* The alternates a value stands for: the str itself, or the list's entries.
Alternates(val) == IF val.isstr THEN <<val.v[1]>> ELSE val.v

WellFormed(mapping) ==
  \A k \in DOMAIN mapping :
    /\ Len(k) = 1
    /\ Len(Alternates(mapping[k])) >= 1
    /\ \A i \in 1..Len(Alternates(mapping[k])) : Len(Alternates(mapping[k])[i]) = 1

C14_CompileReplaces ==
  /\ Returned("compile_replaces") =>
       LET mapping == call.arg
           table == call.ret.table
       IN  /\ call.ret.raised \in {ValueError, NoError}
           /\ call.ret.raised = ValueError <=> ~WellFormed(mapping)
           /\ call.ret.raised = ValueError => DOMAIN table = {}
           /\ call.ret.raised = NoError =>
                /\ DOMAIN table = {Utf8Encode(k) : k \in DOMAIN mapping}
                /\ \A k \in DOMAIN mapping :
                     LET alts == Alternates(mapping[k])
                     IN  table[Utf8Encode(k)] =
                           [i \in 1..Len(alts) |-> <<Utf8Encode(alts[i]), alts[i]>>]
  /\ Returned("similar_keys") =>
       /\ WellFormed(call.arg[2])
       /\ \A i \in 1..Len(call.ret) : call.ret[i] \in UserKeys

\* compile_replaces has refused {"a": ["b"], "b": "ab"}, whose first entry
\* is acceptable.
C14_Witness ==
  /\ Returned("compile_replaces")
  /\ DOMAIN call.arg = {<<97>>, <<98>>}
  /\ call.arg[<<98>>] = StrValue(<<97, 98>>)
  /\ call.ret.raised = ValueError

(***************************************************************************)
(* C15.  The backtracking step of Completer.next().  A call of next() on a *)
(* Completer whose last key ended at a node without children pops nodes    *)
(* and key bytes until a sibling label that is not 0 has been found, goes  *)
(* from the new top of the stack to that sibling (push, append the byte)   *)
(* and descends to the next key; it returns False, with an empty stack,    *)
(* when the stack runs out first.  The label looked at in each turn is a   *)
(* parameter of the statement: lab[i] is the label checked in the turn     *)
(* that pops the i-th node of the stack.                                   *)
(***************************************************************************)
\* next() takes the backtracking branch from c.
Backtracking(c) ==
  /\ c.index_stack # <<>>
  /\ c.last_index # ROOT
  /\ child(Last(c.index_stack)) = 0

\* The node whose turn finds a label: the highest one above the start node
\* with lab[i] # 0; 0 when there is none.
BacktrackStop(lab) ==
  LET found == {i \in 2..Len(lab) : lab[i] # 0}
  IN  IF found = {} THEN 0 ELSE CHOOSE i \in found : \A j \in found : j <= i

\* next() has gone from c to c2 and returned ret as the step describes.
BacktrackedAs(c, ret, c2, lab) ==
  LET stack == c.index_stack
      n == Len(stack)
      i == BacktrackStop(lab)
      kept == Len(c.key) - (n - i + 1)
  IN  IF i = 0
        THEN /\ ~ret
             /\ c2.index_stack = <<>>
             /\ c2.key = SubSeq(c.key, 1, IF Len(c.key) > n THEN Len(c.key) - n ELSE 0)
        ELSE /\ ret
             /\ Len(c2.index_stack) >= i
             /\ SubSeq(c2.index_stack, 1, i - 1) = SubSeq(stack, 1, i - 1)
             /\ c2.index_stack[i] = follow_char(lab[i], stack[i - 1])
             /\ Len(c2.key) > kept
             /\ SubSeq(c2.key, 1, kept) = SubSeq(c.key, 1, kept)
             /\ c2.key[kept + 1] = lab[i]
             /\ has_value(Last(c2.index_stack))
             /\ c2.last_index = Last(c2.index_stack)

\* The label checked is the sibling label of the node the turn pops.
SiblingOfPopped(stack) == [i \in 1..Len(stack) |-> sibling(stack[i])]

\* The label checked is the sibling label of the node that is the top of
\* the stack after the pop.
SiblingOfNewTop(stack) ==
  [i \in 1..Len(stack) |-> IF i = 1 THEN 0 ELSE sibling(stack[i - 1])]

\* A step in which generator g called next() on a backtracking Completer.
BacktrackStep(g) ==
  /\ Len(gen'[g].rets) = Len(gen[g].rets) + 1
  /\ Backtracking(gen[g].c)

\* C15, as stated: after each pop the sibling label of the NEW top of the
\* stack is checked.
C15_Original ==
  [][\A g \in GenIds :
       BacktrackStep(g) =>
         BacktrackedAs(gen[g].c, Last(gen'[g].rets), gen'[g].c,
                       SiblingOfNewTop(gen[g].c.index_stack))]_vars

\* C15, amended: the sibling label is read at the node that is then popped,
\* and the transition on it is followed from the new top of the stack (its
\* parent).
C15_SiblingOfPoppedNode ==
  [][\A g \in GenIds :
       BacktrackStep(g) =>
         BacktrackedAs(gen[g].c, Last(gen'[g].rets), gen'[g].c,
                       SiblingOfPopped(gen[g].c.index_stack))]_vars

\* keys() of {"cat", "car", "care"} has yielded "cat" after "care": two
\* nodes were popped and the sibling "t" of the node of "car" was followed.
C15_Witness ==
  /\ gen[1].state = "running" /\ gen[1].prefix = <<>>
  /\ gen[1].yielded = <<Car, Care, Cat>>

(***************************************************************************)
(* C16.  similar_keys(q, t) returns the keys of the dictionary that come   *)
(* from q by replacing the characters at some positions (none, one or      *)
(* several) by an alternate t gives for the character there: all of them   *)
(* and nothing else, each once; and the recursion of _similar_keys is      *)
(* never deeper than len(q) + 1.                                           *)
(***************************************************************************)
\* The characters t allows at a position that holds ch.
AltChars(t, ch) == {Alts(t, ch)[i][1] : i \in 1..Len(Alts(t, ch))}

RECURSIVE Variants(_, _)
\* The strings q turns into by replacements at any set of positions.
Variants(q, t) ==
  IF q = <<>> THEN {<<>>}
  ELSE {<<ch>> \o rest : ch \in {q[1]} \cup AltChars(t, q[1]),
                         rest \in Variants(Tail(q), t)}

\* No list of alternates names a character twice.
NoRepeats(t) == \A k \in DOMAIN t : NoDuplicates(t[k].v)
\* No character is its own alternate.
NoSelfAlternate(t) == \A k \in DOMAIN t : \A i \in 1..Len(t[k].v) : t[k].v[i] # k

VariantsExact ==
  /\ Range(call.ret) = Variants(call.arg[1], call.arg[2]) \cap UserKeys
  /\ similar_keys_depth(<<>>, call.arg[1], ROOT, compile_replaces(call.arg[2]))
       <= Len(call.arg[1]) + 1

\* C16, as stated: each variant is returned once when no list of alternates
\* repeats a character.
C16_Original ==
  Returned("similar_keys") =>
    /\ VariantsExact
    /\ NoRepeats(call.arg[2]) => NoDuplicates(call.ret)

\* C16, amended: each variant is returned once when no list of alternates
\* repeats a character or names the character it stands for.
C16_VariantsOnce ==
  Returned("similar_keys") =>
    /\ VariantsExact
    /\ (NoRepeats(call.arg[2]) /\ NoSelfAlternate(call.arg[2])) => NoDuplicates(call.ret)

\* similar_keys("color", table of {"o": ["0"]}) has returned "c0l0r", the
\* query with two positions replaced, by a recursion len(q) + 1 calls deep
\* at most and more than one call deep.
C16_Witness ==
  /\ Returned("similar_keys") /\ call.arg[1] = Color /\ call.arg[2] = ReplO0
  /\ C0l0r \in Range(call.ret)
  /\ similar_keys_depth(<<>>, Color, ROOT, compile_replaces(ReplO0)) = 3

(***************************************************************************)
(* C17.  items(p) of an IntCompletionDAWG: every pair (k, v) it lists has  *)
(* v = get(k), the value stored for k, and its keys are, in order, the     *)
(* keys keys(p) lists.                                                     *)
(***************************************************************************)
C17_ItemsValues ==
  (IsInt /\ Returned("items")) =>
    LET expect == LexSorted(FileKeysUnder(Utf8Encode(call.arg)))
    IN  /\ [i \in 1..Len(call.ret) |-> call.ret[i][1]]
             = [i \in 1..Len(expect) |-> Utf8Decode(expect[i])]
        /\ \A i \in 1..Len(call.ret) :
             /\ call.ret[i][2] = IntDAWG_get(Utf8Encode(call.ret[i][1]), PyNone)
             /\ call.ret[i][2] = RawVal(src)[Utf8Encode(call.ret[i][1])]

\* items("ca") of {"cat": 1, "car": 2, "care": 3} has returned
\* [("car", 2), ("care", 3), ("cat", 1)].
C17_Witness ==
  /\ IsInt /\ Returned("items") /\ call.arg = <<99, 97>>
  /\ call.ret = << <<Car, 2>>, <<Care, 3>>, <<Cat, 1>> >>

(***************************************************************************)
(* C18.  The stack and the key of a Completer.  After start(index, prefix) *)
(* and after every next() that returned True the index stack is the path   *)
(* from the start index to the current node and the key is the prefix      *)
(* followed by the labels of that path; the top of the stack then is a     *)
(* node with a value and is _last_index.  So every key assembled begins    *)
(* with the prefix and lies below the start node.                          *)
(***************************************************************************)
\* The Completer of generator g was started and has not returned False.
Started(g) == gen[g].hasc /\ gen[g].state = "running"

\* The stack is the path from the start index along the bytes of the key
\* after the prefix.
StackIsPath(g) ==
  LET c == gen[g].c
      prefix == gen[g].prefix
  IN  /\ c.index_stack # <<>>
      /\ c.index_stack[1] = follow_bytes(prefix, ROOT)
      /\ Len(c.key) = Len(prefix) + Len(c.index_stack) - 1
      /\ SubSeq(c.key, 1, Len(prefix)) = prefix
      /\ \A i \in 1..(Len(c.index_stack) - 1) :
           c.index_stack[i + 1] = follow_char(c.key[Len(prefix) + i], c.index_stack[i])

\* The top of the stack is the node of a key and is _last_index.
TopIsKey(g) ==
  /\ has_value(Last(gen[g].c.index_stack))
  /\ gen[g].c.last_index = Last(gen[g].c.index_stack)

\* C18, as stated: the top of the stack has a value and is _last_index
\* after start() as well.
C18_Original ==
  \A g \in GenIds : Started(g) => (StackIsPath(g) /\ TopIsKey(g))

\* C18, amended: after start() the stack is the start index alone, the key
\* is the prefix and _last_index is ROOT; the top of the stack has a value
\* and is _last_index after every next() that returned True.
C18_StackIsPath ==
  \A g \in GenIds :
    Started(g) =>
      /\ StackIsPath(g)
      /\ gen[g].rets = <<>> =>
           /\ Len(gen[g].c.index_stack) = 1
           /\ gen[g].c.key = gen[g].prefix
           /\ gen[g].c.last_index = ROOT
      /\ gen[g].rets # <<>> => TopIsKey(g)

\* keys("a") of a dictionary with "ab" and "abb" below "a": next() has
\* returned True twice, the second key lies two nodes below the start node.
C18_Witness ==
  /\ Started(1) /\ gen[1].prefix = <<97>>
  /\ gen[1].rets = <<TRUE, TRUE>>
  /\ Len(gen[1].c.index_stack) = 3

(***************************************************************************)
(* C19: the separator of a BytesDAWG.                                      *)
(***************************************************************************)
\* The keys of a list of (key, values) items.
KeysOfItems(its) == [i \in 1..Len(its) |-> its[i][1]]

\* The object was constructed with a separator other than the default.
Configured == IsBytes /\ src.sep # PAYLOAD_SEPARATOR

\* prefixes(k) holds k exactly when k in dawg.
PrefixesAsContains ==
  Returned("prefixes") =>
    ((Utf8Decode(call.arg) \in Range(call.ret)) <=> BytesDAWG_contains(call.arg))

\* similar_keys(q, t) is the list of the keys of similar_items(q, t).
SimilarKeysAsItems ==
  Returned("similar_keys") =>
    call.ret = KeysOfItems(similar_items(call.arg[1], compile_replaces(call.arg[2])))

\* C19: a BytesDAWG constructed with separator s uses s in every key test,
\* for the default separator and for any configured one: k is in prefixes(k)
\* exactly when k in dawg, and similar_keys(q, t) is the list of the keys of
\* similar_items(q, t).
C19_OneSeparator ==
  IsBytes => PrefixesAsContains /\ SimilarKeysAsItems

====
